---- MODULE Spec2Model ----
(***************************************************************************)
(* A model of the Minimind API backend (src/main.py): a FastAPI            *)
(* application whose handlers call a managed backend (tables, storage,     *)
(* auth) and an SMTP relay.  The state is the backend's tables, the        *)
(* storage bucket and the mail the relay accepted; one action per HTTP      *)
(* handler, each the whole handler: dependency (bearer guard), request     *)
(* validation, the backend calls in order, the except clause, the          *)
(* response.                                                               *)
(***************************************************************************)
EXTENDS Integers, Sequences, FiniteSets, TLC

VARIABLES
    family,   \* the resource family this run exercises (handlers of different
              \* families touch disjoint tables)
    config,   \* process configuration read once at start-up (lines 63-67)
    db,       \* the managed backend's tables
    storage,  \* the "images" storage bucket: the set of object paths
    outbox,   \* mail accepted by the SMTP relay
    req,      \* the request being answered
    resp,     \* its response
    io,       \* what the request's calls to the collaborators did
    tasks     \* the requests in flight when two are answered at once

vars == <<family, config, db, storage, outbox, req, resp, io, tasks>>

(***************************************************************************)
(* Bounds of the exploration.                                              *)
(***************************************************************************)
MaxIds == 2

MaxProjects == 1

MaxItems == 1

Ids == 1..MaxIds

(***************************************************************************)
(* HTTP outcomes and Python control flow.  A handler body either returns a  *)
(* value or raises; HTTPException is a subclass of Exception, so a          *)
(* handler's "except Exception" clause also catches the HTTPException its   *)
(* own try block raised.                                                    *)
(***************************************************************************)
Return(body) == [k |-> "return", status |-> 200, body |-> body]

Raise(exc) == [k |-> "raise", status |-> 500, body |-> exc]

RaiseHTTP(st) == [k |-> "raise", status |-> st, body |-> "HTTPException"]

\* try: <outcome> except Exception as e: raise HTTPException(status_code=st)
ExceptException(outcome, st) ==
    IF outcome.k = "raise" THEN RaiseHTTP(st) ELSE outcome

\* What the transport layer sends for a handler's outcome.
Response(outcome) == [status |-> outcome.status, body |-> outcome.body]

NoIO == [mail |-> "none", outage |-> FALSE, db_error |-> FALSE, writes |-> 0]

(***************************************************************************)
(* Auth guard.  A request's Authorization header is absent ("none"),       *)
(* carries a token the backend rejects ("invalid"), carries a token while   *)
(* the verification call itself fails ("error"), or carries a token the     *)
(* backend resolves to a user ("valid").                                    *)
(***************************************************************************)
Credentials == {"none", "invalid", "error", "valid"}

\* security = HTTPBearer(): with no Authorization header the framework's
\* security class ends the request itself, before get_current_user runs.
\* The status it uses is the framework's: 403 in FastAPI before 0.122, 401
\* since; the repository pins no version.
HTTPBearer(cred) ==
    IF cred = "none" THEN {RaiseHTTP(401), RaiseHTTP(403)}
    ELSE {Return("credentials")}

\* get_current_user: every failure inside the try, the HTTPException(401) for
\* an empty user included, leaves as HTTPException(401).
get_current_user(cred) ==
    { IF b.k = "raise" THEN b
      ELSE ExceptException(
               CASE cred = "error"   -> Raise("AuthApiError")
                 [] cred = "invalid" -> RaiseHTTP(401)
                 [] OTHER            -> Return("user"),
               401)
      : b \in HTTPBearer(cred) }

\* The stores a request can write.
stores == <<db, storage, outbox>>

\* user: dict = Depends(get_current_user): the handler body runs, with the
\* request's parameters, only when the dependency returned; otherwise its
\* HTTPException is the response and nothing else happens.
Depends(ep, cred, arg, Body) ==
    \E u \in get_current_user(cred) :
        IF u.k = "return"
        THEN /\ req' = [ep |-> ep, cred |-> cred, arg |-> arg]
             /\ Body
        ELSE /\ req' = [ep |-> ep, cred |-> cred, arg |-> <<>>]
             /\ resp' = Response(u)
             /\ io' = NoIO
             /\ UNCHANGED stores

(***************************************************************************)
(* JSON text.  A Python value is a str (holding a text) or a dict; a text  *)
(* is a JSON document denoting a value, or text that is no JSON, or the     *)
(* empty text.  json.dumps of a str is the JSON string literal, a document  *)
(* that json.loads turns back into the str, not into what the str spells.   *)
(***************************************************************************)
PyStr(text) == [t |-> "str", s |-> text]

\* A dict with the optional entries "a": 1 and "featuredServices".
PyDict(a, fs) == [t |-> "dict", a |-> a, fs |-> fs]

Doc(v) == [k |-> "json", v |-> v]

RawText(n) == [k |-> "raw", n |-> n]

EmptyText == [k |-> "empty"]

json_dumps(v) == Doc(v)

json_loads(text) ==
    IF text.k = "json" THEN Return(text.v) ELSE Raise("JSONDecodeError")

\* {"featuredServices": []}
DefaultValue == PyDict(FALSE, "empty_list")

\* {"a": 1}
ObjA == PyDict(TRUE, "absent")

(***************************************************************************)
(* The backend's tables.  A call to the backend either raises (the         *)
(* dependency is down, a constraint is violated, .single() matched other    *)
(* than one row) or answers with the rows it read or wrote.                 *)
(***************************************************************************)
Families ==
    {"content", "home", "services", "reviews_stats", "team", "portfolio",
     "orders", "packages", "reviews", "messages", "reply", "upload",
     "contact"}

InitDb ==
    [contents |-> <<>>,
     contact_info |-> {},
     home_content |-> "none",
     hero_images |-> {},
     home_stats |-> {},
     home_services_preview |-> {},
     services |-> {},
     reviews_stats |-> {},
     team_members |-> {},
     portfolio_categories |-> {},
     portfolio_projects |-> {},
     orders |-> {},
     packages |-> {},
     reviews |-> {},
     messages |-> {},
     next_id |-> [services |-> 1, reviews_stats |-> 1, team_members |-> 1,
                  portfolio_categories |-> 1, portfolio_projects |-> 1,
                  packages |-> 1, reviews |-> 1, messages |-> 1]]

Request(ep, cred, arg) == [ep |-> ep, cred |-> cred, arg |-> arg]

\* No request is being answered.
NoRequest == Request("none", "none", <<>>)

\* The two requests that may be in flight at once.
Writers == {1, 2}

\* A request in flight: its endpoint and validated body, the backend calls
\* that went through (pc), the response status once it returned (0 before),
\* and what a category lookup gave it: the id found (cat) and whether no
\* category had the name (absent).
NoTask ==
    [ep |-> "none", arg |-> <<>>, pc |-> 0, status |-> 0, cat |-> 0,
     absent |-> FALSE]

NoTasks == [w \in Writers |-> NoTask]

NoResponse == [status |-> 0, body |-> "none"]

\* The server is free to take a request of a family's endpoints.
Ready(fam) == family = fam /\ req = NoRequest

\* The server takes a request of a family's endpoints.
Serve(fam) ==
    /\ Ready(fam)
    /\ UNCHANGED <<family, config, tasks>>

\* The router hands the request to a handler that declares no dependency:
\* the handler gets the validated parameters whatever the request's
\* Authorization header.
Route(fam, ep, cred, arg) ==
    /\ Serve(fam)
    /\ req' = Request(ep, cred, arg)

\* What a request's calls did: the mail outcome, whether the backend was
\* unavailable for a call the request issued (outage), whether a backend call
\* raised for any reason (db_error), and the number of write calls issued.
IO(mail, outage, db_error, writes) ==
    [mail |-> mail, outage |-> outage, db_error |-> db_error, writes |-> writes]

\* .eq("id", id): the rows of a table with that id
Eq(rows, id) == {r \in rows : r.id = id}

\* .update(patch).eq("id", id): the table after the update
Updated(rows, id, v) ==
    {IF r.id = id THEN [r EXCEPT !.v = v] ELSE r : r \in rows}

\* .delete().eq("id", id): the table after the delete
Deleted(rows, id) == {r \in rows : r.id # id}

(***************************************************************************)
(* Content management (lines 304-339).  contents maps a key to the text    *)
(* stored in its value column.                                             *)
(***************************************************************************)
ContentKeys == {"k1", "k2"}

\* The value field of a PUT body: the JSON object {"a": 1}, or a JSON string
\* spelling it, or a string that spells no JSON.
BodyValues == {ObjA, PyStr(Doc(ObjA)), PyStr(RawText("hello"))}

\* class Content(BaseModel): key: str; value: str.  A body whose value is not
\* a JSON string fails validation.
ContentValid(body) == body.value.t = "str"

\* The try block of get_content, with the backend answering.
GetContentBody(d, key) ==
    IF key \notin DOMAIN d.contents
    THEN Raise("APIError")    \* .single().execute() with no row
    ELSE LET value == d.contents[key]
             parsed == json_loads(value)
         IN  IF value.k = "empty"
             THEN Return([key |-> key, value |-> DefaultValue])
             ELSE IF parsed.k = "raise"
             THEN Return([key |-> key, value |-> DefaultValue])
             ELSE IF parsed.body.t # "dict"
             THEN Raise("TypeError")    \* 'featuredServices' in/on a str
             ELSE Return([key |-> key,
                          value |-> PyDict(parsed.body.a,
                                       IF parsed.body.fs \in {"empty_list", "list"}
                                       THEN parsed.body.fs ELSE "empty_list")])

GetContentOutcome(d, key, down) ==
    ExceptException(IF down THEN Raise("APIError") ELSE GetContentBody(d, key), 500)

get_content(key, down) ==
    /\ Route("content", "GET /content/{key}", "none", [key |-> key])
    /\ resp' = Response(GetContentOutcome(db, key, down))
    /\ io' = IO("none", down, down \/ key \notin DOMAIN db.contents, 0)
    /\ UNCHANGED stores

\* content_dict = content.dict(); content_dict['value'] = json.dumps(...)
ContentDict(body) == [key |-> body.key, value |-> json_dumps(body.value)]

\* .update(content_dict).eq("key", key): the matched row takes the body's key
\* and value; a key another row holds is refused by the backend.
ContentsUpdated(contents, key, cd) ==
    (cd.key :> cd.value) @@ [k \in DOMAIN contents \ {key} |-> contents[k]]

update_content(key, body, cred, fail_at) ==
    /\ Serve("content")
    /\ Depends("PUT /content/{key}", cred, [key |-> key, body |-> body],
         IF ~ContentValid(body)
         THEN /\ resp' = Response(RaiseHTTP(422))
              /\ io' = NoIO
              /\ UNCHANGED stores
         ELSE
         LET cd == ContentDict(body)
             matched == key \in DOMAIN db.contents
             clash == cd.key \in DOMAIN db.contents \ {key}
             \* the update call raises; or it matches nothing and the insert raises
             err1 == fail_at = 1 \/ (matched /\ clash)
             err2 == ~err1 /\ ~matched /\ (fail_at = 2 \/ cd.key \in DOMAIN db.contents)
             out == ExceptException(
                        IF err1 \/ err2 THEN Raise("APIError") ELSE Return(cd), 500)
         IN  /\ resp' = Response(out)
             /\ io' = IO("none", fail_at = 1 \/ (err2 /\ fail_at = 2), err1 \/ err2,
                         IF matched \/ err1 THEN 1 ELSE 2)
             /\ db' = IF err1 \/ err2 THEN db
                      ELSE [db EXCEPT !.contents = ContentsUpdated(@, key, cd)]
             /\ UNCHANGED <<storage, outbox>>)

ContentNext ==
    \/ Ready("content") /\ \E key \in ContentKeys, down \in BOOLEAN : get_content(key, down)
    \/ Ready("content") /\ \E key \in ContentKeys, bk \in ContentKeys, v \in BodyValues,
          cred \in Credentials, fail_at \in 0..2 :
          update_content(key, [key |-> bk, value |-> v], cred, fail_at)

(***************************************************************************)
(* Rows of the id-keyed tables are records [id, v]: v stands for the        *)
(* columns a request body sets.  A sequence-backed table issues its ids     *)
(* from next_id.                                                            *)
(***************************************************************************)
Payloads == {"a", "b"}

\* The end of a handler that touches only the tables.
Finish(out, io_, db_) ==
    /\ resp' = Response(out)
    /\ io' = io_
    /\ db' = db_
    /\ UNCHANGED <<storage, outbox>>

\* .insert(row) into a sequence-backed table: the table after the insert
Inserted(d, tbl, row) ==
    [d EXCEPT ![tbl] = @ \cup {row}, !.next_id[tbl] = @ + 1]

(***************************************************************************)
(* Services (lines 471-506).                                               *)
(***************************************************************************)
create_service(cred, v, down) ==
    /\ db.next_id.services <= MaxIds
    /\ Serve("services")
    /\ Depends("POST /services", cred, [v |-> v],
         LET row == [id |-> db.next_id.services, v |-> v]
             out == ExceptException(
                        IF down THEN Raise("APIError") ELSE Return(row), 400)
         IN  Finish(out, IO("none", down, down, 1),
                    IF down THEN db ELSE Inserted(db, "services", row)))

\* The try block of update_service: raise HTTPException(404) when
\* response.data is empty, inside the try.
UpdateServiceBody(rows, id, v, down) ==
    IF down THEN Raise("APIError")
    ELSE IF Eq(rows, id) = {} THEN RaiseHTTP(404)
    ELSE Return([id |-> id, v |-> v])

update_service(cred, id, v, down) ==
    /\ Serve("services")
    /\ Depends("PUT /services/{id}", cred, [id |-> id, v |-> v],
         Finish(ExceptException(UpdateServiceBody(db.services, id, v, down), 500),
                IO("none", down, down, 1),
                IF down THEN db
                ELSE [db EXCEPT !.services = Updated(@, id, v)]))

DeleteServiceBody(rows, id, down) ==
    IF down THEN Raise("APIError")
    ELSE IF Eq(rows, id) = {} THEN RaiseHTTP(404)
    ELSE Return("Service deleted successfully")

delete_service(cred, id, down) ==
    /\ Serve("services")
    /\ Depends("DELETE /services/{id}", cred, [id |-> id],
         Finish(ExceptException(DeleteServiceBody(db.services, id, down), 500),
                IO("none", down, down, 1),
                IF down THEN db
                ELSE [db EXCEPT !.services = Deleted(@, id)]))

ServicesNext ==
    \/ Ready("services") /\ \E cred \in Credentials, v \in Payloads, down \in BOOLEAN :
          create_service(cred, v, down)
    \/ Ready("services") /\ \E cred \in Credentials, id \in Ids, v \in Payloads, down \in BOOLEAN :
          update_service(cred, id, v, down)
    \/ Ready("services") /\ \E cred \in Credentials, id \in Ids, down \in BOOLEAN :
          delete_service(cred, id, down)

(***************************************************************************)
(* Reviews stats (lines 387-415).  The body of a create may carry an id    *)
(* (0 stands for None, which the handler drops so the backend issues one).  *)
(***************************************************************************)
create_reviews_stat(cred, body_id, v, down) ==
    /\ db.next_id.reviews_stats <= MaxIds
    /\ Serve("reviews_stats")
    /\ Depends("POST /reviews-stats", cred, [id |-> body_id, v |-> v],
         LET id == IF body_id = 0 THEN db.next_id.reviews_stats ELSE body_id
             row == [id |-> id, v |-> v]
             err == down \/ Eq(db.reviews_stats, id) # {}
             out == ExceptException(
                        IF err THEN Raise("APIError") ELSE Return(row), 400)
         IN  Finish(out, IO("none", down, err, 1),
                    IF down THEN db
                    ELSE IF err
                    THEN [db EXCEPT !.next_id.reviews_stats =
                                        IF body_id = 0 THEN @ + 1 ELSE @]
                    ELSE [db EXCEPT !.reviews_stats = @ \cup {row},
                                    !.next_id.reviews_stats =
                                        IF body_id = 0 THEN @ + 1 ELSE @]))

\* return response.data[0]: an IndexError when no row matched
UpdateReviewsStatBody(rows, id, v, down) ==
    IF down THEN Raise("APIError")
    ELSE IF Eq(rows, id) = {} THEN Raise("IndexError")
    ELSE Return([id |-> id, v |-> v])

update_reviews_stat(cred, id, v, down) ==
    /\ Serve("reviews_stats")
    /\ Depends("PUT /reviews-stats/{id}", cred, [id |-> id, v |-> v],
         Finish(ExceptException(
                    UpdateReviewsStatBody(db.reviews_stats, id, v, down), 500),
                IO("none", down, down, 1),
                IF down THEN db
                ELSE [db EXCEPT !.reviews_stats = Updated(@, id, v)]))

\* A delete whose response is not looked at.
DeleteUncheckedBody(message, down) ==
    IF down THEN Raise("APIError") ELSE Return(message)

delete_reviews_stat(cred, id, down) ==
    /\ Serve("reviews_stats")
    /\ Depends("DELETE /reviews-stats/{id}", cred, [id |-> id],
         Finish(ExceptException(
                    DeleteUncheckedBody("Reviews stat deleted successfully", down),
                    500),
                IO("none", down, down, 1),
                IF down THEN db
                ELSE [db EXCEPT !.reviews_stats = Deleted(@, id)]))

ReviewsStatsNext ==
    \/ Ready("reviews_stats") /\ \E cred \in Credentials, body_id \in {0} \cup Ids, v \in Payloads,
          down \in BOOLEAN : create_reviews_stat(cred, body_id, v, down)
    \/ Ready("reviews_stats") /\ \E cred \in Credentials, id \in Ids, v \in Payloads, down \in BOOLEAN :
          update_reviews_stat(cred, id, v, down)
    \/ Ready("reviews_stats") /\ \E cred \in Credentials, id \in Ids, down \in BOOLEAN :
          delete_reviews_stat(cred, id, down)

(***************************************************************************)
(* Packages (lines 809-849).                                               *)
(***************************************************************************)
create_package(cred, v, down) ==
    /\ db.next_id.packages <= MaxIds
    /\ Serve("packages")
    /\ Depends("POST /packages", cred, [v |-> v],
         LET row == [id |-> db.next_id.packages, v |-> v]
             out == ExceptException(
                        IF down THEN Raise("APIError") ELSE Return(row), 400)
         IN  Finish(out, IO("none", down, down, 1),
                    IF down THEN db ELSE Inserted(db, "packages", row)))

\* if response.data: return it; else: raise HTTPException(400), inside the try
UpdatePackageBody(rows, id, v, down) ==
    IF down THEN Raise("APIError")
    ELSE IF Eq(rows, id) = {} THEN RaiseHTTP(400)
    ELSE Return([id |-> id, v |-> v])

update_package(cred, id, v, down) ==
    /\ Serve("packages")
    /\ Depends("PUT /packages/{id}", cred, [id |-> id, v |-> v],
         Finish(ExceptException(UpdatePackageBody(db.packages, id, v, down), 500),
                IO("none", down, down, 1),
                IF down THEN db
                ELSE [db EXCEPT !.packages = Updated(@, id, v)]))

delete_package(cred, id, down) ==
    /\ Serve("packages")
    /\ Depends("DELETE /packages/{id}", cred, [id |-> id],
         Finish(ExceptException(
                    DeleteUncheckedBody("Package deleted successfully", down), 500),
                IO("none", down, down, 1),
                IF down THEN db
                ELSE [db EXCEPT !.packages = Deleted(@, id)]))

PackagesNext ==
    \/ Ready("packages") /\ \E cred \in Credentials, v \in Payloads, down \in BOOLEAN :
          create_package(cred, v, down)
    \/ Ready("packages") /\ \E cred \in Credentials, id \in Ids, v \in Payloads, down \in BOOLEAN :
          update_package(cred, id, v, down)
    \/ Ready("packages") /\ \E cred \in Credentials, id \in Ids, down \in BOOLEAN :
          delete_package(cred, id, down)

(***************************************************************************)
(* Mail.  config says which of the environment's sender settings are       *)
(* present: SENDER stands for SENDER_EMAIL with its password,               *)
(* MESSAGE_SENDER for MESSAGE_SENDER_EMAIL with its password, RECEIVER for  *)
(* RECEIVER_EMAIL.  The relay accepts a message ("ok") or the SMTP session  *)
(* raises ("fail").                                                        *)
(***************************************************************************)
Smtp == {"ok", "fail"}

Configs == [SENDER : BOOLEAN, MESSAGE_SENDER : BOOLEAN, RECEIVER : BOOLEAN]

FullConfig == [SENDER |-> TRUE, MESSAGE_SENDER |-> TRUE, RECEIVER |-> TRUE]

Sent(mail) == [k |-> "return", mail |-> mail]

SendRaised(mail) == [k |-> "raise", mail |-> mail]

\* A faulty variant of _send_email_notification, which lets the SMTP failure
\* out instead of logging it.
send_email_notification_raising(cfg, smtp) ==
    IF ~(cfg.SENDER /\ cfg.RECEIVER) THEN Sent("skipped")
    ELSE IF smtp = "fail" THEN SendRaised("failed")
    ELSE Sent("sent")

\* _send_email_notification: returns without sending when a setting is
\* missing; logs an SMTP failure and returns.
send_email_notification(cfg, smtp) ==
    IF ~(cfg.SENDER /\ cfg.RECEIVER) THEN Sent("skipped")
    ELSE IF smtp = "fail" THEN Sent("failed")
    ELSE Sent("sent")

\* _send_new_message_email: the same, with the message sender's settings.
send_new_message_email(cfg, smtp) ==
    IF ~(cfg.MESSAGE_SENDER /\ cfg.RECEIVER) THEN Sent("skipped")
    ELSE IF smtp = "fail" THEN Sent("failed")
    ELSE Sent("sent")

\* A faulty variant of _send_reply, which logs the failure and returns as
\* the notification senders do.
send_reply_swallowing(cfg, smtp) ==
    IF ~cfg.MESSAGE_SENDER THEN Sent("unconfigured")
    ELSE IF smtp = "fail" THEN Sent("failed")
    ELSE Sent("sent")

\* _send_reply and _send_reply_email_from_request: raise HTTPException(500)
\* when the sender settings are missing or the SMTP session raises.
send_reply(cfg, smtp) ==
    IF ~cfg.MESSAGE_SENDER THEN SendRaised("unconfigured")
    ELSE IF smtp = "fail" THEN SendRaised("failed")
    ELSE Sent("sent")

send_reply_email_from_request(cfg, smtp) ==
    IF ~cfg.MESSAGE_SENDER THEN SendRaised("unconfigured")
    ELSE IF smtp = "fail" THEN SendRaised("failed")
    ELSE Sent("sent")

Mail(template, ref) == [template |-> template, ref |-> ref]

\* The relay's accepted mail after a send.
Delivered(box, sending, template, ref) ==
    IF sending.mail = "sent" THEN box \cup {Mail(template, ref)} ELSE box

(***************************************************************************)
(* Orders (lines 739-786).  order_id is supplied by the client and          *)
(* identifies the row; v is the status column.                              *)
(***************************************************************************)
Statuses == {"pending", "done"}

\* The try block of create_order.
CreateOrderBody(rows, row, down, sending) ==
    IF down \/ Eq(rows, row.id) # {} THEN Raise("APIError")
    ELSE IF sending.k = "raise" THEN Raise("SMTPException")
    ELSE Return(row)

create_order(order_id, status, down, smtp) ==
    /\ Route("orders", "POST /orders", "none", [id |-> order_id, v |-> status])
    /\ LET row == [id |-> order_id, v |-> status]
           err == down \/ Eq(db.orders, order_id) # {}
           sending == IF err THEN Sent("none")
                      ELSE send_email_notification(config, smtp)
           out == ExceptException(
                      CreateOrderBody(db.orders, row, down, sending), 400)
       IN  /\ resp' = Response(out)
           /\ io' = IO(sending.mail, down, err, 1)
           /\ db' = IF err THEN db ELSE [db EXCEPT !.orders = @ \cup {row}]
           /\ outbox' = Delivered(outbox, sending, "order", order_id)
           /\ UNCHANGED storage

\* A read of a whole table.
SelectAllBody(rows, down) ==
    IF down THEN Raise("APIError") ELSE Return(rows)

get_all_orders(cred, down) ==
    /\ Serve("orders")
    /\ Depends("GET /orders", cred, <<>>,
         Finish(ExceptException(SelectAllBody(db.orders, down), 500),
                IO("none", down, down, 0), db))

\* A faulty variant of .single(), which takes one of several matching rows.
SingleOfMany(rows) ==
    IF rows # {} THEN Return(CHOOSE r \in rows : TRUE) ELSE Raise("APIError")

\* .single().execute(): raises unless exactly one row matched
Single(rows) ==
    IF Cardinality(rows) = 1 THEN Return(CHOOSE r \in rows : TRUE)
    ELSE Raise("APIError")

get_order(cred, id, down) ==
    /\ Serve("orders")
    /\ Depends("GET /orders/{order_id}", cred, [id |-> id],
         Finish(ExceptException(
                    IF down THEN Raise("APIError") ELSE Single(Eq(db.orders, id)),
                    500),
                IO("none", down, down \/ Eq(db.orders, id) = {}, 0), db))

\* return response.data, whatever it holds
UpdateUncheckedBody(rows, id, v, down) ==
    IF down THEN Raise("APIError") ELSE Return(Eq(Updated(rows, id, v), id))

update_order_status(cred, id, status, down) ==
    /\ Serve("orders")
    /\ Depends("PUT /orders/{order_id}", cred, [id |-> id, v |-> status],
         Finish(ExceptException(
                    UpdateUncheckedBody(db.orders, id, status, down), 500),
                IO("none", down, down, 1),
                IF down THEN db ELSE [db EXCEPT !.orders = Updated(@, id, status)]))

delete_order(cred, id, down) ==
    /\ Serve("orders")
    /\ Depends("DELETE /orders/{order_id}", cred, [id |-> id],
         Finish(ExceptException(
                    DeleteUncheckedBody("Order deleted successfully", down), 500),
                IO("none", down, down, 1),
                IF down THEN db ELSE [db EXCEPT !.orders = Deleted(@, id)]))

OrdersNext ==
    \/ Ready("orders") /\ \E id \in Ids, st \in Statuses, down \in BOOLEAN, smtp \in Smtp :
          create_order(id, st, down, smtp)
    \/ Ready("orders") /\ \E cred \in Credentials, down \in BOOLEAN : get_all_orders(cred, down)
    \/ Ready("orders") /\ \E cred \in Credentials, id \in Ids, down \in BOOLEAN :
          get_order(cred, id, down)
    \/ Ready("orders") /\ \E cred \in Credentials, id \in Ids, st \in Statuses, down \in BOOLEAN :
          update_order_status(cred, id, st, down)
    \/ Ready("orders") /\ \E cred \in Credentials, id \in Ids, down \in BOOLEAN :
          delete_order(cred, id, down)

(***************************************************************************)
(* Messages (lines 915-986).  v is the read column.                         *)
(***************************************************************************)
\* The try block of create_message.
CreateMessageBody(down, sending) ==
    IF down THEN Raise("APIError")
    ELSE IF sending.k = "raise" THEN Raise("SMTPException")
    ELSE Return("Message sent successfully")

create_message(read, down, smtp) ==
    /\ db.next_id.messages <= MaxIds
    /\ Route("messages", "POST /messages", "none", [v |-> read])
    /\ LET row == [id |-> db.next_id.messages, v |-> read]
           sending == IF down THEN Sent("none")
                      ELSE send_new_message_email(config, smtp)
           out == ExceptException(CreateMessageBody(down, sending), 400)
       IN  /\ resp' = Response(out)
           /\ io' = IO(sending.mail, down, down, 1)
           /\ db' = IF down THEN db ELSE Inserted(db, "messages", row)
           /\ outbox' = Delivered(outbox, sending, "message", row.id)
           /\ UNCHANGED storage

get_all_messages(cred, down) ==
    /\ Serve("messages")
    /\ Depends("GET /messages", cred, <<>>,
         Finish(ExceptException(SelectAllBody(db.messages, down), 500),
                IO("none", down, down, 0), db))

\* The update's response is not looked at.
MarkReadBody(down) ==
    IF down THEN Raise("APIError") ELSE Return("Message marked as read")

mark_message_as_read(cred, id, down) ==
    /\ Serve("messages")
    /\ Depends("PUT /messages/{id}/read", cred, [id |-> id],
         Finish(ExceptException(MarkReadBody(down), 500),
                IO("none", down, down, 1),
                IF down THEN db ELSE [db EXCEPT !.messages = Updated(@, id, TRUE)]))

delete_message(cred, id, down) ==
    /\ Serve("messages")
    /\ Depends("DELETE /messages/{id}", cred, [id |-> id],
         Finish(ExceptException(
                    DeleteUncheckedBody("Message deleted successfully", down), 500),
                IO("none", down, down, 1),
                IF down THEN db ELSE [db EXCEPT !.messages = Deleted(@, id)]))

MessagesNext ==
    \/ Ready("messages") /\ \E read \in BOOLEAN, down \in BOOLEAN, smtp \in Smtp :
          create_message(read, down, smtp)
    \/ Ready("messages") /\ \E cred \in Credentials, down \in BOOLEAN : get_all_messages(cred, down)
    \/ Ready("messages") /\ \E cred \in Credentials, id \in Ids, down \in BOOLEAN :
          mark_message_as_read(cred, id, down)
    \/ Ready("messages") /\ \E cred \in Credentials, id \in Ids, down \in BOOLEAN :
          delete_message(cred, id, down)

(***************************************************************************)
(* Replies (lines 988-1049).  Neither handler has a try of its own: the    *)
(* sender's HTTPException is the response.                                  *)
(***************************************************************************)
Recipients == {"r1", "r2"}

ReplyOutcome(sending, message) ==
    IF sending.k = "raise" THEN RaiseHTTP(500) ELSE Return(message)

\* The end of a handler that only sends mail.
FinishMail(sending, message, template, to) ==
    /\ resp' = Response(ReplyOutcome(sending, message))
    /\ io' = IO(sending.mail, FALSE, FALSE, 0)
    /\ outbox' = Delivered(outbox, sending, template, to)
    /\ UNCHANGED <<db, storage>>

reply_to_message(cred, to, smtp) ==
    /\ Serve("reply")
    /\ Depends("POST /messages/reply", cred, [to |-> to],
         FinishMail(send_reply(config, smtp), "Reply sent successfully",
                    "reply", to))

\* No dependency on get_current_user is declared.
send_reply_email(cred, to, smtp) ==
    /\ Route("reply", "POST /send-reply-email", cred, [to |-> to])
    /\ FinishMail(send_reply_email_from_request(config, smtp),
                  "Reply sent successfully via backend.", "reply_request", to)

ReplyNext ==
    \/ Ready("reply") /\ \E cred \in Credentials, to \in Recipients, smtp \in Smtp :
          reply_to_message(cred, to, smtp)
    \/ Ready("reply") /\ \E cred \in Credentials, to \in Recipients, smtp \in Smtp :
          send_reply_email(cred, to, smtp)

(***************************************************************************)
(* Image upload (lines 1052-1082).  No dependency on get_current_user is   *)
(* declared.  Each upload stores under a fresh uuid4 path.                  *)
(***************************************************************************)
UploadBody(path, down) ==
    IF down THEN Raise("StorageApiError") ELSE Return([url |-> path])

upload_image(cred, file, image_url, down) ==
    /\ Cardinality(storage) < MaxIds
    /\ Route("upload", "POST /images/upload", cred,
             [file |-> file, image_url |-> image_url])
    /\ LET path == Cardinality(storage) + 1
           out == IF ~file /\ ~image_url THEN RaiseHTTP(400)
                  ELSE IF file THEN ExceptException(UploadBody(path, down), 500)
                  ELSE Return([url |-> 0])
       IN  /\ resp' = Response(out)
           /\ io' = IO("none", file /\ down, file /\ down, IF file THEN 1 ELSE 0)
           /\ storage' = IF file /\ ~down THEN storage \cup {path} ELSE storage
           /\ UNCHANGED <<db, outbox>>

UploadNext ==
    /\ Ready("upload")
    /\ \E cred \in Credentials, file \in BOOLEAN, image_url \in BOOLEAN,
           down \in BOOLEAN : upload_image(cred, file, image_url, down)

(***************************************************************************)
(* Reviews (lines 852-912).  A row is [id, approved, company_url], where    *)
(* company_url says whether the column holds a string or null.  ReviewOut,  *)
(* the response model of every review endpoint but the delete, requires     *)
(* company_url to be a string: a returned row without one fails the         *)
(* response's validation after the handler has returned.                    *)
(***************************************************************************)
ReviewOutValid(row) == row.company_url

\* response_model=ReviewOut or List[ReviewOut] applied to a handler's outcome
ResponseModel(out, rows) ==
    IF out.k = "return" /\ \E r \in rows : ~ReviewOutValid(r)
    THEN Raise("ResponseValidationError")
    ELSE out

create_review(approved, company_url, down) ==
    /\ db.next_id.reviews <= MaxIds
    /\ Route("reviews", "POST /reviews", "none",
             [approved |-> approved, company_url |-> company_url])
    /\ LET row == [id |-> db.next_id.reviews, approved |-> approved,
                   company_url |-> company_url]
           out == ExceptException(
                      IF down THEN Raise("APIError") ELSE Return(row), 400)
       IN  Finish(ResponseModel(out, {row}), IO("none", down, down, 1),
                  IF down THEN db ELSE Inserted(db, "reviews", row))

\* .select("*").order("created_at", desc=True)
GetAllReviewsBody(rows, down) ==
    IF down THEN Raise("APIError") ELSE Return(rows)

get_all_reviews(cred, down) ==
    /\ Serve("reviews")
    /\ Depends("GET /admin/reviews", cred, <<>>,
         Finish(ResponseModel(
                    ExceptException(GetAllReviewsBody(db.reviews, down), 500),
                    db.reviews),
                IO("none", down, down, 0), db))

\* A faulty variant of the public query, without its approved filter.
AllReviews(rows) == rows

\* .select("*").eq('approved', True).order("created_at", desc=True)
PublicReviews(rows) == {r \in rows : r.approved}

GetPublicReviewsBody(rows, down) ==
    IF down THEN Raise("APIError") ELSE Return(PublicReviews(rows))

get_public_reviews(down) ==
    /\ Route("reviews", "GET /reviews", "none", <<>>)
    /\ Finish(ResponseModel(
                  ExceptException(GetPublicReviewsBody(db.reviews, down), 500),
                  PublicReviews(db.reviews)),
              IO("none", down, down, 0), db)

\* review.dict(exclude_unset=True): approved and company_url are set by the
\* body ("true"/"false", "set"/"null") or left out ("keep").
ReviewPatches == [approved : {"keep", "true", "false"},
                  company_url : {"keep", "set", "null"}]

Patched(r, patch) ==
    [r EXCEPT !.approved = IF patch.approved = "keep" THEN @
                           ELSE patch.approved = "true",
              !.company_url = IF patch.company_url = "keep" THEN @
                              ELSE patch.company_url = "set"]

ReviewsPatched(rows, id, patch) ==
    {IF r.id = id THEN Patched(r, patch) ELSE r : r \in rows}

\* The try block of update_review and approve_review.
UpdateReviewBody(rows, id, patch, down) ==
    IF down THEN Raise("APIError")
    ELSE IF Eq(rows, id) = {} THEN RaiseHTTP(404)
    ELSE Return(Eq(ReviewsPatched(rows, id, patch), id))

update_review(cred, id, patch, down) ==
    /\ Serve("reviews")
    /\ Depends("PUT /reviews/{id}", cred, [id |-> id, patch |-> patch],
         Finish(ResponseModel(
                    ExceptException(UpdateReviewBody(db.reviews, id, patch, down), 500),
                    Eq(ReviewsPatched(db.reviews, id, patch), id)),
                IO("none", down, down, 1),
                IF down THEN db
                ELSE [db EXCEPT !.reviews = ReviewsPatched(@, id, patch)]))

\* .update({"approved": True})
ApprovePatch == [approved |-> "true", company_url |-> "keep"]

approve_review(cred, id, down) ==
    /\ Serve("reviews")
    /\ Depends("PUT /reviews/{id}/approve", cred, [id |-> id],
         Finish(ResponseModel(
                    ExceptException(
                        UpdateReviewBody(db.reviews, id, ApprovePatch, down), 500),
                    Eq(ReviewsPatched(db.reviews, id, ApprovePatch), id)),
                IO("none", down, down, 1),
                IF down THEN db
                ELSE [db EXCEPT !.reviews = ReviewsPatched(@, id, ApprovePatch)]))

DeleteReviewBody(rows, id, down) ==
    IF down THEN Raise("APIError")
    ELSE IF Eq(rows, id) = {} THEN RaiseHTTP(404)
    ELSE Return("Review deleted successfully")

delete_review(cred, id, down) ==
    /\ Serve("reviews")
    /\ Depends("DELETE /reviews/{id}", cred, [id |-> id],
         Finish(ExceptException(DeleteReviewBody(db.reviews, id, down), 500),
                IO("none", down, down, 1),
                IF down THEN db ELSE [db EXCEPT !.reviews = Deleted(@, id)]))

ReviewsNext ==
    \/ Ready("reviews") /\ \E approved \in BOOLEAN, company_url \in BOOLEAN, down \in BOOLEAN :
          create_review(approved, company_url, down)
    \/ Ready("reviews") /\ \E cred \in Credentials, down \in BOOLEAN : get_all_reviews(cred, down)
    \/ Ready("reviews") /\ \E down \in BOOLEAN : get_public_reviews(down)
    \/ Ready("reviews") /\ \E cred \in Credentials, id \in Ids, patch \in ReviewPatches,
          down \in BOOLEAN : update_review(cred, id, patch, down)
    \/ Ready("reviews") /\ \E cred \in Credentials, id \in Ids, down \in BOOLEAN :
          approve_review(cred, id, down)
    \/ Ready("reviews") /\ \E cred \in Credentials, id \in Ids, down \in BOOLEAN :
          delete_review(cred, id, down)

(***************************************************************************)
(* Team members (lines 526-584).  A row is [id, display_order].             *)
(***************************************************************************)
\* .select("display_order").order('display_order', desc=True).limit(1), then
\* max_order = 0 unless a row came back
MaxOrder(rows) ==
    IF rows = {} THEN 0
    ELSE CHOOSE m \in {r.display_order : r \in rows} :
             \A r \in rows : r.display_order <= m

\* member.dict(exclude_unset=True): display_order is set by the body or left
\* out (-1).
OrderPatches == {-1, 0, 1}

\* A faulty variant of the assignment below, which keeps a display_order the
\* body carries.
MemberDataKept(order, max_order) ==
    IF order = -1 THEN max_order + 1 ELSE order

\* member_data = member.dict(); member_data['display_order'] = max_order + 1:
\* the display_order of the row to insert, for the body's display_order
MemberData(order, max_order) == max_order + 1

\* fail_at: the backend call that raises (1: the select, 2: the insert)
create_team_member(cred, order, fail_at) ==
    /\ db.next_id.team_members <= MaxIds
    /\ Serve("team")
    /\ Depends("POST /team-members", cred, [display_order |-> order],
         LET row == [id |-> db.next_id.team_members,
                     display_order |->
                         MemberData(order, MaxOrder(db.team_members))]
             out == ExceptException(
                        IF fail_at # 0 THEN Raise("APIError") ELSE Return({row}),
                        400)
         IN  Finish(out, IO("none", fail_at # 0, fail_at # 0,
                            IF fail_at = 1 THEN 0 ELSE 1),
                    IF fail_at # 0 THEN db ELSE Inserted(db, "team_members", row)))

\* .update(member_data).eq("id", member_id): display_order changes only when
\* the body set it.
TeamUpdated(rows, id, order) ==
    {IF r.id = id
     THEN [r EXCEPT !.display_order = IF order = -1 THEN @ ELSE order]
     ELSE r : r \in rows}

UpdateTeamMemberBody(rows, id, order, down) ==
    IF down THEN Raise("APIError")
    ELSE IF Eq(rows, id) = {} THEN RaiseHTTP(404)
    ELSE Return(Eq(TeamUpdated(rows, id, order), id))

update_team_member(cred, id, order, down) ==
    /\ Serve("team")
    /\ Depends("PUT /team-members/{id}", cred, [id |-> id, display_order |-> order],
         Finish(ExceptException(
                    UpdateTeamMemberBody(db.team_members, id, order, down), 500),
                IO("none", down, down, 1),
                IF down THEN db
                ELSE [db EXCEPT !.team_members = TeamUpdated(@, id, order)]))

DeleteTeamMemberBody(rows, id, down) ==
    IF down THEN Raise("APIError")
    ELSE IF Eq(rows, id) = {} THEN RaiseHTTP(404)
    ELSE Return("Team member deleted successfully")

delete_team_member(cred, id, down) ==
    /\ Serve("team")
    /\ Depends("DELETE /team-members/{id}", cred, [id |-> id],
         Finish(ExceptException(DeleteTeamMemberBody(db.team_members, id, down), 500),
                IO("none", down, down, 1),
                IF down THEN db ELSE [db EXCEPT !.team_members = Deleted(@, id)]))

\* A faulty variant of the reorder loop, which moves a member by its index
\* instead of setting its display_order to the index.
RECURSIVE ReorderedShifted(_, _, _)
ReorderedShifted(rows, ordered_ids, n) ==
    IF n = 0 THEN rows
    ELSE {IF r.id = ordered_ids[n]
             THEN [r EXCEPT !.display_order = @ + n - 1] ELSE r
          : r \in ReorderedShifted(rows, ordered_ids, n - 1)}

\* A faulty variant of the reorder loop, which counts the index from one.
RECURSIVE ReorderedOneBased(_, _, _)
ReorderedOneBased(rows, ordered_ids, n) ==
    IF n = 0 THEN rows
    ELSE {IF r.id = ordered_ids[n] THEN [r EXCEPT !.display_order = n] ELSE r
          : r \in ReorderedOneBased(rows, ordered_ids, n - 1)}

\* The table after the first n updates of the reorder loop:
\* .update({'display_order': index}).eq('id', member_id), index from 0.
RECURSIVE Reordered(_, _, _)
Reordered(rows, ordered_ids, n) ==
    IF n = 0 THEN rows
    ELSE {IF r.id = ordered_ids[n] THEN [r EXCEPT !.display_order = n - 1] ELSE r
          : r \in Reordered(rows, ordered_ids, n - 1)}

OrderedIds == UNION {[1..n -> Ids] : n \in 0..MaxIds}

\* fail_at: the update of the loop that raises (0: none)
reorder_team_members(cred, ordered_ids, fail_at) ==
    /\ fail_at <= Len(ordered_ids)
    /\ Serve("team")
    /\ Depends("POST /team-members/reorder", cred, [ordered_ids |-> ordered_ids],
         LET done == IF fail_at = 0 THEN Len(ordered_ids) ELSE fail_at - 1
             out == ExceptException(
                        IF fail_at # 0 THEN Raise("APIError")
                        ELSE Return("Team members reordered successfully"), 500)
         IN  Finish(out,
                    IO("none", fail_at # 0, fail_at # 0,
                       IF fail_at = 0 THEN Len(ordered_ids) ELSE fail_at),
                    [db EXCEPT !.team_members = Reordered(@, ordered_ids, done)]))

TeamNext ==
    \/ Ready("team") /\ \E cred \in Credentials, order \in OrderPatches,
          fail_at \in 0..2 : create_team_member(cred, order, fail_at)
    \/ Ready("team") /\ \E cred \in Credentials, id \in Ids, order \in OrderPatches,
          down \in BOOLEAN : update_team_member(cred, id, order, down)
    \/ Ready("team") /\ \E cred \in Credentials, id \in Ids, down \in BOOLEAN :
          delete_team_member(cred, id, down)
    \/ Ready("team") /\ \E cred \in Credentials, ordered_ids \in OrderedIds, fail_at \in 0..MaxIds :
          reorder_team_members(cred, ordered_ids, fail_at)

(***************************************************************************)
(* Portfolio (lines 596-696).  A category is [id, name]; nothing keeps two  *)
(* categories from having the same name.  A project is [id, category_id].  *)
(***************************************************************************)
CategoryNames == {"n1", "n2"}

create_portfolio_category(cred, name, down) ==
    /\ db.next_id.portfolio_categories <= MaxIds
    /\ Serve("portfolio")
    /\ Depends("POST /portfolio-categories", cred, [name |-> name],
         LET row == [id |-> db.next_id.portfolio_categories, name |-> name]
             out == ExceptException(
                        IF down THEN Raise("APIError") ELSE Return(row), 400)
         IN  Finish(out, IO("none", down, down, 1),
                    IF down THEN db
                    ELSE Inserted(db, "portfolio_categories", row)))

delete_portfolio_category(cred, id, down) ==
    /\ Serve("portfolio")
    /\ Depends("DELETE /portfolio-categories/{id}", cred, [id |-> id],
         Finish(ExceptException(
                    DeleteUncheckedBody("Category deleted successfully", down), 500),
                IO("none", down, down, 1),
                IF down THEN db
                ELSE [db EXCEPT !.portfolio_categories = Deleted(@, id)]))

\* .select("id").eq("name", name).single().execute()
CategoryLookup(d, name, down) ==
    IF down THEN Raise("APIError")
    ELSE Single({c \in d.portfolio_categories : c.name = name})

\* A response whose data is empty.
NoData == [id |-> 0]

\* The category resolution both project writes start with: the id of the row
\* found, or of a category inserted when the lookup came back without data.
\* fail_at: the backend call that raises (1: the lookup, 2: the category
\* insert).  The result is the outcome (returning the category id), the
\* tables after it and the number of writes issued.
ResolveCategory(d, name, fail_at) ==
    LET found == CategoryLookup(d, name, fail_at = 1)
        row == [id |-> d.next_id.portfolio_categories, name |-> name]
    IN  IF found.k = "raise"
        THEN [out |-> found, db |-> d, writes |-> 0, outage |-> fail_at = 1]
        ELSE IF found.body # NoData
        THEN [out |-> Return(found.body.id), db |-> d, writes |-> 0,
              outage |-> FALSE]
        ELSE IF fail_at = 2 \/ row.id > MaxIds
        THEN [out |-> Raise("APIError"), db |-> d, writes |-> 1,
              outage |-> fail_at = 2]
        ELSE [out |-> Return(row.id),
              db |-> Inserted(d, "portfolio_categories", row), writes |-> 1,
              outage |-> FALSE]

\* fail_at 3: the project insert raises
create_portfolio_project(cred, name, fail_at) ==
    /\ db.next_id.portfolio_projects <= MaxProjects
    /\ Serve("portfolio")
    /\ Depends("POST /portfolio-projects", cred, [category_name |-> name],
         LET cat == ResolveCategory(db, name, fail_at)
             row == [id |-> db.next_id.portfolio_projects,
                     category_id |-> cat.out.body]
             failed == cat.out.k = "raise" \/ fail_at = 3
             out == ExceptException(
                        IF cat.out.k = "raise" THEN cat.out
                        ELSE IF fail_at = 3 THEN Raise("APIError")
                        ELSE Return([id |-> row.id, category_name |-> name]),
                        400)
         IN  Finish(out,
                    IO("none", cat.outage \/ (cat.out.k = "return" /\ fail_at = 3),
                       failed,
                       cat.writes + IF cat.out.k = "raise" THEN 0 ELSE 1),
                    IF failed THEN cat.db
                    ELSE Inserted(cat.db, "portfolio_projects", row)))

ProjectsUpdated(rows, id, category_id) ==
    {IF r.id = id THEN [r EXCEPT !.category_id = category_id] ELSE r
     : r \in rows}

\* fail_at 3: the project update raises.  return response.data, whatever it
\* holds.
update_portfolio_project(cred, id, name, fail_at) ==
    /\ Serve("portfolio")
    /\ Depends("PUT /portfolio-projects/{id}", cred, [id |-> id, category_name |-> name],
         LET cat == ResolveCategory(db, name, fail_at)
             failed == cat.out.k = "raise" \/ fail_at = 3
             after == ProjectsUpdated(cat.db.portfolio_projects, id, cat.out.body)
             out == ExceptException(
                        IF cat.out.k = "raise" THEN cat.out
                        ELSE IF fail_at = 3 THEN Raise("APIError")
                        ELSE Return(Eq(after, id)),
                        500)
         IN  Finish(out,
                    IO("none", cat.outage \/ (cat.out.k = "return" /\ fail_at = 3),
                       failed,
                       cat.writes + IF cat.out.k = "raise" THEN 0 ELSE 1),
                    IF failed THEN cat.db
                    ELSE [cat.db EXCEPT !.portfolio_projects = after]))

delete_portfolio_project(cred, id, down) ==
    /\ Serve("portfolio")
    /\ Depends("DELETE /portfolio-projects/{id}", cred, [id |-> id],
         Finish(ExceptException(
                    DeleteUncheckedBody("Project deleted successfully", down), 500),
                IO("none", down, down, 1),
                IF down THEN db
                ELSE [db EXCEPT !.portfolio_projects = Deleted(@, id)]))

PortfolioNext ==
    \/ Ready("portfolio") /\ \E cred \in Credentials, name \in CategoryNames, down \in BOOLEAN :
          create_portfolio_category(cred, name, down)
    \/ Ready("portfolio") /\ \E cred \in Credentials, id \in Ids, down \in BOOLEAN :
          delete_portfolio_category(cred, id, down)
    \/ Ready("portfolio") /\ \E cred \in Credentials, name \in CategoryNames, fail_at \in 0..3 :
          create_portfolio_project(cred, name, fail_at)
    \/ Ready("portfolio") /\ \E cred \in Credentials, id \in 1..MaxProjects, name \in CategoryNames,
          fail_at \in 0..3 : update_portfolio_project(cred, id, name, fail_at)
    \/ Ready("portfolio") /\ \E cred \in Credentials, id \in 1..MaxProjects, down \in BOOLEAN :
          delete_portfolio_project(cred, id, down)

(***************************************************************************)
(* Home page (lines 418-459).  home_content is the content singleton; the   *)
(* three child tables hold rows identified by their id.                     *)
(***************************************************************************)
Items == 1..MaxItems

HomeData == [content : Payloads, hero_images : SUBSET Items,
             stats : SUBSET Items, services_preview : SUBSET Items]

\* The module's imports (lines 2-18) do not bind the name asyncio, which
\* get_full_home_page uses.
AsyncioImported == FALSE

\* The try block of get_full_home_page: asyncio.gather(...) is evaluated
\* first, and raises NameError before any read is issued.
GetFullHomePageBody(d, down) ==
    IF ~AsyncioImported THEN Raise("NameError")
    ELSE IF down THEN Raise("APIError")
    ELSE Return([content |-> d.home_content,
                 hero_images |-> d.hero_images,
                 stats |-> d.home_stats,
                 services_preview |-> d.home_services_preview])

GetFullHomePageOutcome(d, down) ==
    ExceptException(GetFullHomePageBody(d, down), 500)

get_full_home_page(down) ==
    /\ Route("home", "GET /home-page", "none", <<>>)
    /\ Finish(GetFullHomePageOutcome(db, down),
              IO("none", down /\ AsyncioImported, down /\ AsyncioImported, 0), db)

\* The backend calls of update_full_home_page, in order: 1 the content
\* upsert, then for hero_images (2, 3), home_stats (4, 5) and
\* home_services_preview (6, 7) a delete of every row and an insert of the
\* supplied rows.  An insert is issued only for a non-empty list.
HomeCalls == 1..7

\* A faulty variant which skips the delete of the hero images too when the
\* supplied list is empty.
HomeIssuedIfSupplied(data, k) ==
    CASE k \in {2, 3} -> data.hero_images # {}
      [] k = 5 -> data.stats # {}
      [] k = 7 -> data.services_preview # {}
      [] OTHER -> TRUE

HomeIssued(data, k) ==
    CASE k = 3 -> data.hero_images # {}
      [] k = 5 -> data.stats # {}
      [] k = 7 -> data.services_preview # {}
      [] OTHER -> TRUE

\* A faulty variant of the delete, which removes no row.
DeleteNone(rows) == rows

\* .delete().neq('id', -1): every row but one whose id is -1
DeleteAll(rows) == {r \in rows : r = -1}

HomeCall(d, data, k) ==
    CASE k = 1 -> [d EXCEPT !.home_content = data.content]
      [] k = 2 -> [d EXCEPT !.hero_images = DeleteAll(@)]
      [] k = 3 -> [d EXCEPT !.hero_images = @ \cup data.hero_images]
      [] k = 4 -> [d EXCEPT !.home_stats = DeleteAll(@)]
      [] k = 5 -> [d EXCEPT !.home_stats = @ \cup data.stats]
      [] k = 6 -> [d EXCEPT !.home_services_preview = DeleteAll(@)]
      [] OTHER -> [d EXCEPT !.home_services_preview = @ \cup data.services_preview]

\* A faulty variant which writes nothing unless all seven calls went through.
HomeAfterAtomic(d, data, n) ==
    IF n = 7
    THEN [d EXCEPT !.home_content = data.content,
                   !.hero_images = data.hero_images,
                   !.home_stats = data.stats,
                   !.home_services_preview = data.services_preview]
    ELSE d

\* The tables after the calls 1..n.
RECURSIVE HomeAfter(_, _, _)
HomeAfter(d, data, n) ==
    IF n = 0 THEN d
    ELSE LET before == HomeAfter(d, data, n - 1)
         IN  IF HomeIssued(data, n) THEN HomeCall(before, data, n) ELSE before

\* fail_at: the call that raises (0: none)
update_full_home_page(cred, data, fail_at) ==
    /\ fail_at # 0 => cred = "valid" /\ HomeIssued(data, fail_at)
    /\ Serve("home")
    /\ Depends("PUT /home-page", cred, data,
         LET done == IF fail_at = 0 THEN 7 ELSE fail_at - 1
             last == IF fail_at = 0 THEN 7 ELSE fail_at
             out == ExceptException(
                        IF fail_at # 0 THEN Raise("APIError")
                        ELSE Return("Home page updated successfully"), 500)
         IN  Finish(out,
                    IO("none", fail_at # 0, fail_at # 0,
                       Cardinality({k \in 1..last : HomeIssued(data, k)})),
                    HomeAfter(db, data, done)))

HomeNext ==
    \/ Ready("home") /\ \E down \in BOOLEAN : get_full_home_page(down)
    \/ Ready("home") /\ \E cred \in Credentials, data \in HomeData, fail_at \in {0} \cup HomeCalls :
          update_full_home_page(cred, data, fail_at)

(***************************************************************************)
(* Contact info (lines 362-375).  A row is [id, v].  The body may carry an  *)
(* id (0: not set), which info.dict(exclude_unset=True) then holds.         *)
(***************************************************************************)
ContactBodyIds == {0, 1, 2}

\* .update(info_dict).eq("id", 1)
ContactUpdated(rows, body_id, v) ==
    {IF r.id = 1 THEN [id |-> IF body_id = 0 THEN 1 ELSE body_id, v |-> v] ELSE r
     : r \in rows}

\* fail_at: the backend call that raises (1: the update, 2: the insert)
update_contact_info(cred, body_id, v, fail_at) ==
    /\ fail_at # 0 => cred = "valid"
    /\ Serve("contact")
    /\ Depends("PUT /contact-info", cred, [id |-> body_id, v |-> v],
         LET matched == Eq(db.contact_info, 1) # {}
             \* {"id": 1, **info_dict}
             row == [id |-> IF body_id = 0 THEN 1 ELSE body_id, v |-> v]
             clash == Eq(db.contact_info, row.id) # {} /\ row.id # 1
             err1 == fail_at = 1 \/ (matched /\ clash)
             err2 == ~err1 /\ ~matched /\ (fail_at = 2 \/ Eq(db.contact_info, row.id) # {})
             out == ExceptException(
                        IF err1 \/ err2 THEN Raise("APIError") ELSE Return({row}),
                        500)
         IN  Finish(out,
                    IO("none", fail_at = 1 \/ (err2 /\ fail_at = 2), err1 \/ err2,
                       IF matched \/ err1 THEN 1 ELSE 2),
                    IF err1 \/ err2 THEN db
                    ELSE IF matched
                    THEN [db EXCEPT !.contact_info = ContactUpdated(@, body_id, v)]
                    ELSE [db EXCEPT !.contact_info = @ \cup {row}]))

ContactNext ==
    /\ Ready("contact")
    /\ \E cred \in Credentials, body_id \in ContactBodyIds, v \in Payloads,
           fail_at \in 0..2 : update_contact_info(cred, body_id, v, fail_at)

\* The response has been sent; the server takes the next request.
next_request ==
    /\ req # NoRequest
    /\ req' = NoRequest
    /\ resp' = NoResponse
    /\ io' = NoIO
    /\ UNCHANGED <<family, config, db, storage, outbox, tasks>>

Init ==
    /\ family \in Families
    /\ config \in CASE family = "orders" ->
                         {c \in Configs : c.MESSAGE_SENDER}
                      [] family = "messages" -> {c \in Configs : c.SENDER}
                      [] family = "reply" ->
                         {c \in Configs : c.SENDER /\ c.RECEIVER}
                      [] OTHER -> {FullConfig}
    /\ db = InitDb
    /\ storage = {}
    /\ outbox = {}
    /\ req = NoRequest
    /\ resp = NoResponse
    /\ io = NoIO
    /\ tasks = NoTasks

Next ==
    \/ ContentNext
    \/ ServicesNext
    \/ ReviewsStatsNext
    \/ PackagesNext
    \/ OrdersNext
    \/ MessagesNext
    \/ ReplyNext
    \/ UploadNext
    \/ ReviewsNext
    \/ TeamNext
    \/ PortfolioNext
    \/ HomeNext
    \/ ContactNext
    \/ next_request

Spec == Init /\ [][Next]_vars

(***************************************************************************)
(* Two authenticated requests answered at once.  A handler awaits its       *)
(* backend calls one after the other (await run_in_threadpool(...)), and    *)
(* the event loop runs the other request's handler while a call is          *)
(* awaited: the calls of the two requests interleave in any order, each     *)
(* call being one step.  The backend answers every call.                    *)
(***************************************************************************)

\* The content a writer supplies.
WriterContent(w) == IF w = 1 THEN "a" ELSE "b"

\* The rows a writer supplies; their ids differ from another writer's.
WriterItems(w) == {(w - 1) * MaxItems + i : i \in Items}

\* The body of a writer's PUT /home-page: each list is empty or holds the
\* writer's rows.
WriterHomeData(w) ==
    [content : {WriterContent(w)},
     hero_images : {{}, WriterItems(w)},
     stats : {{}, WriterItems(w)},
     services_preview : {{}, WriterItems(w)}]

\* The body of a PUT /home-page completed before the two requests arrive.
EarlierHomeData ==
    [content |-> "a", hero_images |-> WriterItems(3), stats |-> WriterItems(3),
     services_preview |-> WriterItems(3)]

\* A request passes the auth guard and body validation and its handler
\* starts.
arrives(w, ep, arg) ==
    /\ tasks[w] = NoTask
    /\ tasks' = [tasks EXCEPT ![w] = [NoTask EXCEPT !.ep = ep, !.arg = arg]]
    /\ UNCHANGED <<family, config, db, storage, outbox, req, resp, io>>

\* The handler of task w is at one of ep's backend calls.
Awaiting(w, ep) == tasks[w].ep = ep /\ tasks[w].status = 0

\* The next backend call of update_full_home_page goes through; the handler
\* returns after the last one.
update_full_home_page_call(w) ==
    /\ Awaiting(w, "PUT /home-page")
    /\ LET t == tasks[w]
           issued == {k \in HomeCalls : k > t.pc /\ HomeIssued(t.arg, k)}
           k == CHOOSE i \in issued : \A j \in issued : i <= j
       IN  /\ db' = HomeCall(db, t.arg, k)
           /\ tasks' = [tasks EXCEPT
                 ![w].pc = k,
                 ![w].status = IF issued = {k}
                               THEN Return("Home page updated successfully").status
                               ELSE 0]
    /\ UNCHANGED <<family, config, storage, outbox, req, resp, io>>

\* The insert of create_portfolio_category goes through and the handler
\* returns.
create_portfolio_category_call(w) ==
    /\ Awaiting(w, "POST /portfolio-categories")
    /\ db.next_id.portfolio_categories <= MaxIds
    /\ LET row == [id |-> db.next_id.portfolio_categories,
                   name |-> tasks[w].arg.name]
       IN  /\ db' = Inserted(db, "portfolio_categories", row)
           /\ tasks' = [tasks EXCEPT ![w].pc = 1, ![w].status = Return(row).status]
    /\ UNCHANGED <<family, config, storage, outbox, req, resp, io>>

\* The next backend call of create_portfolio_project goes through: the
\* category lookup (pc 0), the category insert when the lookup came back
\* without data (pc 1), the project insert (pc 2).  A raising lookup ends
\* the handler in its except clause.
create_portfolio_project_call(w) ==
    /\ Awaiting(w, "POST /portfolio-projects")
    /\ LET t == tasks[w]
           name == t.arg.category_name
           found == CategoryLookup(db, name, FALSE)
           category == [id |-> db.next_id.portfolio_categories, name |-> name]
           project == [id |-> db.next_id.portfolio_projects,
                       category_id |-> t.cat]
       IN  CASE t.pc = 0 ->
                 /\ db' = db
                 /\ tasks' = [tasks EXCEPT
                       ![w].absent =
                           {c \in db.portfolio_categories : c.name = name} = {},
                       ![w].status = IF found.k = "raise"
                                     THEN ExceptException(found, 400).status
                                     ELSE 0,
                       ![w].cat = IF found.k = "raise" THEN 0 ELSE found.body.id,
                       ![w].pc = IF found.k = "raise" THEN 0
                                 ELSE IF found.body # NoData THEN 2 ELSE 1]
             [] t.pc = 1 ->
                 /\ category.id <= MaxIds
                 /\ db' = Inserted(db, "portfolio_categories", category)
                 /\ tasks' = [tasks EXCEPT ![w].cat = category.id, ![w].pc = 2]
             [] OTHER ->
                 /\ project.id <= MaxProjects
                 /\ db' = Inserted(db, "portfolio_projects", project)
                 /\ tasks' = [tasks EXCEPT
                       ![w].pc = 3,
                       ![w].status =
                           Return([id |-> project.id, category_name |-> name]).status]
    /\ UNCHANGED <<family, config, storage, outbox, req, resp, io>>

\* The next backend call of update_contact_info goes through: the update of
\* the row with id 1 (pc 0), and the insert when the update matched no row
\* (pc 1).  A call the backend refuses, because the id it writes is another
\* row's, ends the handler in its except clause.
update_contact_info_call(w) ==
    /\ Awaiting(w, "PUT /contact-info")
    /\ LET t == tasks[w]
           matched == Eq(db.contact_info, 1) # {}
           \* {"id": 1, **info_dict}
           row == [id |-> IF t.arg.id = 0 THEN 1 ELSE t.arg.id, v |-> t.arg.v]
           taken == Eq(db.contact_info, row.id) # {}
       IN  CASE t.pc = 0 /\ ~matched ->
                 /\ db' = db
                 /\ tasks' = [tasks EXCEPT ![w].pc = 1]
             [] t.pc = 0 /\ matched ->
                 LET out == ExceptException(
                                IF taken /\ row.id # 1 THEN Raise("APIError")
                                ELSE Return({row}), 500)
                 IN  /\ db' = IF out.k = "raise" THEN db
                              ELSE [db EXCEPT !.contact_info =
                                       ContactUpdated(@, t.arg.id, t.arg.v)]
                     /\ tasks' = [tasks EXCEPT ![w].pc = 1,
                                               ![w].status = out.status]
             [] OTHER ->
                 LET out == ExceptException(
                                IF taken THEN Raise("APIError")
                                ELSE Return({row}), 500)
                 IN  /\ db' = IF out.k = "raise" THEN db
                              ELSE [db EXCEPT !.contact_info = @ \cup {row}]
                     /\ tasks' = [tasks EXCEPT ![w].pc = 2,
                                               ![w].status = out.status]
    /\ UNCHANGED <<family, config, storage, outbox, req, resp, io>>

InitRace ==
    /\ family \in {"home", "portfolio", "contact"}
    /\ config = FullConfig
    /\ db \in IF family = "home"
              THEN {InitDb, HomeAfter(InitDb, EarlierHomeData, 7)}
              ELSE {InitDb}
    /\ storage = {}
    /\ outbox = {}
    /\ req = NoRequest
    /\ resp = NoResponse
    /\ io = NoIO
    /\ tasks = NoTasks

NextRace ==
    \/ family = "home" /\ \E w \in Writers : \E data \in WriterHomeData(w) :
          arrives(w, "PUT /home-page", data)
    \/ family = "portfolio" /\ \E w \in Writers, name \in CategoryNames :
          arrives(w, "POST /portfolio-categories", [name |-> name])
    \/ family = "portfolio" /\ \E w \in Writers, name \in CategoryNames :
          arrives(w, "POST /portfolio-projects", [category_name |-> name])
    \/ family = "contact" /\ \E w \in Writers, body_id \in ContactBodyIds,
          v \in Payloads :
          arrives(w, "PUT /contact-info", [id |-> body_id, v |-> v])
    \/ \E w \in Writers : update_full_home_page_call(w)
    \/ \E w \in Writers : update_contact_info_call(w)
    \/ \E w \in Writers : create_portfolio_category_call(w)
    \/ \E w \in Writers : create_portfolio_project_call(w)

SpecRace == InitRace /\ [][NextRace]_vars

(***************************************************************************)
(* Properties.  Each is stated over the answered request: req is the       *)
(* request, resp its response, io what its calls did, db/storage/outbox    *)
(* the stores after it.                                                     *)
(***************************************************************************)

\* The endpoints that declare Depends(get_current_user) and write or send.
GuardedMutating ==
    {"PUT /content/{key}", "PUT /contact-info",
     "POST /reviews-stats", "PUT /reviews-stats/{id}", "DELETE /reviews-stats/{id}",
     "PUT /home-page",
     "POST /services", "PUT /services/{id}", "DELETE /services/{id}",
     "POST /team-members", "PUT /team-members/{id}", "DELETE /team-members/{id}",
     "POST /team-members/reorder",
     "POST /portfolio-categories", "DELETE /portfolio-categories/{id}",
     "POST /portfolio-projects", "PUT /portfolio-projects/{id}",
     "DELETE /portfolio-projects/{id}",
     "PUT /orders/{order_id}", "DELETE /orders/{order_id}",
     "POST /packages", "PUT /packages/{id}", "DELETE /packages/{id}",
     "PUT /reviews/{id}", "PUT /reviews/{id}/approve", "DELETE /reviews/{id}",
     "PUT /messages/{id}/read", "DELETE /messages/{id}",
     "POST /messages/reply"}

\* C1: a request to a guarded mutating endpoint that carries no bearer token,
\* or a token the verification rejects or fails on, is answered with 401 and
\* issues no write to the backend.
C1_UnauthenticatedIs401 ==
    (req.ep \in GuardedMutating /\ req.cred # "valid") =>
        (resp.status = 401 /\ io.writes = 0 /\ io.mail = "none")

\* The endpoints the interface lists as open to requests without a token.
OpenEndpoints ==
    {"POST /orders", "POST /reviews", "POST /messages", "GET /reviews",
     "GET /home-page", "GET /content/{key}"}

\* C2: a request to any endpoint outside the open list that carries no valid
\* bearer token has no effect: it is not answered with success, writes
\* nothing and sends no mail.  POST /send-reply-email, POST /images/upload
\* and POST /messages/reply are among these endpoints.
C2_EffectNeedsValidToken ==
    (req # NoRequest /\ req.ep \notin OpenEndpoints /\ req.cred # "valid") =>
        (resp.status # 200 /\ io.writes = 0 /\ io.mail \notin {"sent", "failed"})

\* The table a targeted update or delete endpoint addresses.
TargetTable(d, ep) ==
    CASE ep \in {"PUT /services/{id}", "DELETE /services/{id}"} -> d.services
      [] ep \in {"PUT /team-members/{id}", "DELETE /team-members/{id}"} ->
             d.team_members
      [] ep \in {"PUT /reviews/{id}", "PUT /reviews/{id}/approve",
                 "DELETE /reviews/{id}"} -> d.reviews
      [] ep \in {"PUT /reviews-stats/{id}", "DELETE /reviews-stats/{id}"} ->
             d.reviews_stats
      [] ep \in {"PUT /portfolio-projects/{id}",
                 "DELETE /portfolio-projects/{id}"} -> d.portfolio_projects
      [] ep = "DELETE /portfolio-categories/{id}" -> d.portfolio_categories
      [] ep \in {"PUT /orders/{order_id}", "DELETE /orders/{order_id}"} ->
             d.orders
      [] ep \in {"PUT /packages/{id}", "DELETE /packages/{id}"} -> d.packages
      [] ep \in {"PUT /messages/{id}/read", "DELETE /messages/{id}"} ->
             d.messages
      [] OTHER -> {}

TargetedEndpoints ==
    {"PUT /services/{id}", "DELETE /services/{id}",
     "PUT /team-members/{id}", "DELETE /team-members/{id}",
     "PUT /reviews/{id}", "PUT /reviews/{id}/approve", "DELETE /reviews/{id}",
     "PUT /reviews-stats/{id}", "DELETE /reviews-stats/{id}",
     "PUT /portfolio-projects/{id}", "DELETE /portfolio-projects/{id}",
     "DELETE /portfolio-categories/{id}",
     "PUT /orders/{order_id}", "DELETE /orders/{order_id}",
     "PUT /packages/{id}", "DELETE /packages/{id}",
     "PUT /messages/{id}/read", "DELETE /messages/{id}"}

\* C3: an authenticated update or delete addressed to an id that matches no
\* stored row (with the backend available) is answered with 404, never with
\* 200 or 500.
C3_MissingIdIs404 ==
    [][(/\ req = NoRequest
        /\ req'.ep \in TargetedEndpoints
        /\ req'.cred = "valid"
        /\ ~io'.outage
        /\ Eq(TargetTable(db, req'.ep), req'.arg.id) = {})
       => resp'.status = 404]_vars

\* C4: after an authenticated PUT /home-page has succeeded, a GET /home-page
\* (the backend available, no other writer) succeeds and returns in
\* hero_images, stats and services_preview exactly the items of the PUT.
C4_HomePageWriteThenRead ==
    (req.ep = "PUT /home-page" /\ resp.status = 200) =>
        LET got == GetFullHomePageOutcome(db, FALSE)
        IN  /\ got.k = "return"
            /\ got.body.hero_images = req.arg.hero_images
            /\ got.body.stats = req.arg.stats
            /\ got.body.services_preview = req.arg.services_preview

\* The ways a PUT body can carry the value {"a": 1}: as the JSON object, or
\* as a JSON string spelling it.
CarriesObjA == {ObjA, PyStr(Doc(ObjA))}

\* C5: an authenticated PUT /content/{k} carrying the value {"a": 1} (the
\* backend available) succeeds, and a GET /content/{k} after it succeeds with
\* the value {"a": 1, "featuredServices": []}.
C5_ContentRoundTrip ==
    (/\ req.ep = "PUT /content/{key}"
     /\ req.cred = "valid"
     /\ req.arg.body.key = req.arg.key
     /\ req.arg.body.value \in CarriesObjA
     /\ ~io.outage) =>
        LET got == GetContentOutcome(db, req.arg.key, FALSE)
        IN  /\ resp.status = 200
            /\ got.k = "return"
            /\ got.body.value = PyDict(TRUE, "empty_list")

\* C6: GET /content/{key} for a key no row holds (the backend available) is
\* answered with success and the value {"featuredServices": []}.
C6_UnwrittenKeyDefault ==
    (/\ req.ep = "GET /content/{key}"
     /\ ~io.outage
     /\ req.arg.key \notin DOMAIN db.contents) =>
        (resp.status = 200 /\ resp.body.value = DefaultValue)

\* C7: an authenticated POST /portfolio-projects whose category name matches
\* no stored category (the backend available) succeeds, adds exactly one
\* category row with that name, stores the project with the new category's
\* id and returns category_name equal to the input.
C7_NewCategoryCreated ==
    [][(/\ req = NoRequest
        /\ req'.ep = "POST /portfolio-projects"
        /\ req'.cred = "valid"
        /\ ~io'.outage
        /\ ~\E c \in db.portfolio_categories : c.name = req'.arg.category_name)
       => /\ resp'.status = 200
          /\ resp'.body.category_name = req'.arg.category_name
          /\ \E c \in db'.portfolio_categories \ db.portfolio_categories :
                /\ c.name = req'.arg.category_name
                /\ db'.portfolio_categories = db.portfolio_categories \cup {c}
                /\ \E p \in db'.portfolio_projects \ db.portfolio_projects :
                      p.category_id = c.id]_vars

C9_NotificationNeverFailsWrite ==
    /\ (req.ep = "POST /orders" /\ ~io.db_error) =>
           /\ io.mail \in {"sent", "failed", "skipped"}
           /\ resp.status = 200
           /\ resp.body = [id |-> req.arg.id, v |-> req.arg.v]
           /\ resp.body \in db.orders
    /\ (req.ep = "POST /messages" /\ ~io.db_error) =>
           /\ io.mail \in {"sent", "failed", "skipped"}
           /\ resp.status = 200
           /\ [id |-> db.next_id.messages - 1, v |-> req.arg.v] \in db.messages

\* An order was stored and answered with success although its notification
\* failed to send.
C9_Witness ==
    /\ req.ep = "POST /orders"
    /\ io.mail = "failed"
    /\ resp.status = 200
    /\ db.orders # {}

\* C10: POST /messages/reply and POST /send-reply-email answer with success
\* only if the mail was sent; a failed SMTP send or absent sender credentials
\* is answered with 500.
C10_ReplySucceedsOnlyIfSent ==
    req.ep \in {"POST /messages/reply", "POST /send-reply-email"} =>
        /\ resp.status = 200 =>
               /\ io.mail = "sent"
               /\ \E m \in outbox : m.ref = req.arg.to
        /\ io.mail \in {"failed", "unconfigured"} => resp.status = 500

\* An authenticated reply whose SMTP send failed was answered with 500.
C10_Witness ==
    /\ req.ep = "POST /messages/reply"
    /\ req.cred = "valid"
    /\ io.mail = "failed"
    /\ resp.status = 500

\* The display_order of every stored team member is its id: what creates one
\* after another leave, starting from the empty table.
CreatedInSequence(d) ==
    d.team_members = {[id |-> k, display_order |-> k] :
                          k \in 1..(d.next_id.team_members - 1)}

\* C11: a completed team-member create stores one new row whose
\* display_order is the largest stored display_order plus one (1 for the
\* empty table), whatever display_order the body carries; so creates one
\* after another, from the empty table, give the k-th member display_order k.
C11_CreateAppends ==
    [][(/\ req = NoRequest
        /\ req'.ep = "POST /team-members"
        /\ resp'.status = 200)
       => /\ \E row \in db'.team_members \ db.team_members :
                /\ db'.team_members = db.team_members \cup {row}
                /\ \A r \in db.team_members : r.display_order < row.display_order
                /\ \/ db.team_members = {} /\ row.display_order = 1
                   \/ \E r \in db.team_members :
                         r.display_order = row.display_order - 1
          /\ CreatedInSequence(db) => CreatedInSequence(db')]_vars

\* The second of two members created one after the other was stored with
\* display_order 2, although the body carried another display_order.
C11_Witness ==
    /\ req.ep = "POST /team-members"
    /\ resp.status = 200
    /\ req.arg.display_order # -1
    /\ CreatedInSequence(db)
    /\ [id |-> 2, display_order |-> 2] \in db.team_members

\* C12: once POST /team-members/reorder has run to completion with an id
\* sequence, running it to completion again with the same sequence changes
\* no team member's display_order.
C12_ReorderIdempotent ==
    (/\ req.ep = "POST /team-members/reorder"
     /\ resp.status = 200)
    => Reordered(db.team_members, req.arg.ordered_ids,
                 Len(req.arg.ordered_ids)) = db.team_members

\* A reorder completed that listed both stored members, the later created
\* one first.
C12_Witness ==
    /\ req.ep = "POST /team-members/reorder"
    /\ resp.status = 200
    /\ req.arg.ordered_ids = <<2, 1>>
    /\ db.team_members = {[id |-> 2, display_order |-> 0],
                          [id |-> 1, display_order |-> 1]}

\* The positions, among the first n of ordered_ids, that list id.
Positions(ordered_ids, n, id) == {i \in 1..n : ordered_ids[i] = id}

\* C17: POST /team-members/reorder issues one update per listed id in list
\* order; a member listed among the updates that went through has its
\* zero-based position there (the last one, if listed twice) as
\* display_order, every other member keeps its display_order; the request
\* returns 500 exactly when an update fails, and the updates before the
\* failing one stay.
C17_ReorderStepwise ==
    [][(/\ req = NoRequest
        /\ req'.ep = "POST /team-members/reorder"
        /\ resp'.status \in {200, 500})
       => LET ordered_ids == req'.arg.ordered_ids
              done == IF resp'.status = 200 THEN Len(ordered_ids)
                      ELSE io'.writes - 1
          IN  /\ resp'.status = 500 <=> io'.outage
              /\ io'.writes \in 0..Len(ordered_ids)
              /\ resp'.status = 200 => io'.writes = Len(ordered_ids)
              /\ resp'.status = 500 => io'.writes >= 1
              /\ db'.team_members =
                     {[id |-> r.id,
                       display_order |->
                           LET at == Positions(ordered_ids, done, r.id)
                           IN  IF at = {} THEN r.display_order
                               ELSE (CHOOSE i \in at : \A j \in at : j <= i) - 1]
                      : r \in db.team_members}]_vars

\* A reorder failed on its second update and left two members with the same
\* display_order.
C17_Witness ==
    /\ req.ep = "POST /team-members/reorder"
    /\ resp.status = 500
    /\ io.writes = 2
    /\ \E r1, r2 \in db.team_members :
          r1.id # r2.id /\ r1.display_order = r2.display_order

\* A child table of the home page after m of a PUT's calls went through,
\* when the table's delete is the call number del: untouched before the
\* delete, emptied by it, and holding the supplied rows once the insert,
\* issued for a non-empty list only, went through.
ChildAfter(old, supplied, del, m) ==
    IF m < del THEN old
    ELSE IF supplied # {} /\ m > del THEN supplied
    ELSE {}

\* 1 for a non-empty list, whose insert is issued, else 0.
InsertCalls(supplied) == IF supplied = {} THEN 0 ELSE 1

\* C13: PUT /home-page issues its calls in the order content upsert, hero
\* images delete and insert, stats delete and insert, service previews
\* delete and insert; it returns 500 exactly when a call fails, issues no
\* call after the failing one, and leaves what the calls before it wrote.
C13_HomePageStepwise ==
    [][(/\ req = NoRequest
        /\ req'.ep = "PUT /home-page"
        /\ resp'.status \in {200, 500})
       => LET data == req'.arg
              hero_del == 2
              stats_del == hero_del + InsertCalls(data.hero_images) + 1
              prev_del == stats_del + InsertCalls(data.stats) + 1
              calls == prev_del + InsertCalls(data.services_preview)
              m == IF resp'.status = 200 THEN calls ELSE io'.writes - 1
          IN  /\ resp'.status = 500 <=> io'.outage
              /\ io'.writes \in 1..calls
              /\ resp'.status = 200 => io'.writes = calls
              /\ db'.home_content =
                     IF m >= 1 THEN data.content ELSE db.home_content
              /\ db'.hero_images =
                     ChildAfter(db.hero_images, data.hero_images, hero_del, m)
              /\ db'.home_stats =
                     ChildAfter(db.home_stats, data.stats, stats_del, m)
              /\ db'.home_services_preview =
                     ChildAfter(db.home_services_preview,
                                data.services_preview, prev_del, m)]_vars

\* A PUT failed on the insert of the hero images: the content is the new
\* one, the hero images are gone, and the stats are the old ones.
C13_Witness ==
    /\ req.ep = "PUT /home-page"
    /\ resp.status = 500
    /\ io.writes = 3
    /\ db.home_content = req.arg.content
    /\ req.arg.hero_images # {}
    /\ db.hero_images = {}
    /\ db.home_stats # {}
    /\ db.home_stats # req.arg.stats

Dense(rows) ==
    LET orders == {r.display_order : r \in rows}
    IN  /\ Cardinality(orders) = Cardinality(rows)
        /\ \A o \in orders : o >= 0
        /\ \A lo, hi \in orders : \A o \in lo..hi : o \in orders

\* C18: a completed team-member create, delete or reorder leaves the
\* display_order values of the stored members non-negative, pairwise
\* distinct and consecutive when they were so before; they are so in the
\* empty table.
C18_DisplayOrderDense ==
    [][(/\ req = NoRequest
        /\ req'.ep \in {"POST /team-members", "DELETE /team-members/{id}",
                        "POST /team-members/reorder"}
        /\ resp'.status = 200
        /\ Dense(db.team_members))
       => Dense(db'.team_members)]_vars

\* C19: a request during which the backend failed is answered 500, on the
\* create endpoints as on the others.
C19_BackendFailureIs500 ==
    (req # NoRequest /\ io.outage) => resp.status = 500

\* C20: GET /content/{key} for a stored key (the backend available) is
\* answered with success and a value that is an object, whatever text the
\* row holds.
C20_StoredTextNeverFailsRead ==
    (/\ req.ep = "GET /content/{key}"
     /\ ~io.outage
     /\ req.arg.key \in DOMAIN db.contents) =>
        (resp.status = 200 /\ resp.body.value.t = "dict")

\* Both requests in flight were requests to ep and have returned.
BothReturned(ep) ==
    \A w \in Writers : tasks[w].ep = ep /\ tasks[w].status # 0

\* What a child table may hold after two writers replaced it at once: the
\* list of one of them, or the rows of both.
Mixed(mine, yours) == {mine, yours, mine \cup yours}

\* C15: the delete and insert calls of two concurrent PUT /home-page
\* requests interleave; after both returned success the content is one
\* request's, and each child collection is one request's list or holds the
\* rows of both, whichever request the content and the other collections
\* come from.  No row stored before the requests is left.
C15_ConcurrentWritesMix ==
    BothReturned("PUT /home-page") =>
        /\ \A w \in Writers : tasks[w].status = 200
        /\ db.home_content \in {tasks[w].arg.content : w \in Writers}
        /\ db.hero_images \in
               Mixed(tasks[1].arg.hero_images, tasks[2].arg.hero_images)
        /\ db.home_stats \in Mixed(tasks[1].arg.stats, tasks[2].arg.stats)
        /\ db.home_services_preview \in
               Mixed(tasks[1].arg.services_preview,
                     tasks[2].arg.services_preview)

\* Both requests returned success; the hero images hold the rows of both
\* writers and so equal neither supplied list, the content is the first
\* writer's and the stats are the second writer's.
C15_Witness ==
    /\ BothReturned("PUT /home-page")
    /\ tasks[1].arg.hero_images # {}
    /\ tasks[2].arg.hero_images # {}
    /\ db.hero_images = tasks[1].arg.hero_images \cup tasks[2].arg.hero_images
    /\ db.home_content = tasks[1].arg.content
    /\ tasks[1].arg.stats # {}
    /\ tasks[2].arg.stats # {}
    /\ db.home_stats = tasks[2].arg.stats

\* C16: when two concurrent POST /portfolio-projects name the same category
\* and both look it up while no category has that name, both insert it: two
\* category rows with that name are stored once both have returned.
C16_BothInsertCategory ==
    (/\ BothReturned("POST /portfolio-projects")
     /\ tasks[1].arg = tasks[2].arg
     /\ \A w \in Writers : tasks[w].absent) =>
        Cardinality({c \in db.portfolio_categories :
                        c.name = tasks[1].arg.category_name}) = 2

\* C21: the contact_info table holds at most one row, whose id is 1, and
\* every PUT /contact-info that returned, alone or while another was in
\* flight, returned success.
C21_ContactInfoSingleton ==
    /\ Cardinality(db.contact_info) <= 1
    /\ \A r \in db.contact_info : r.id = 1
    /\ \A w \in Writers :
          (tasks[w].ep = "PUT /contact-info" /\ tasks[w].status # 0)
              => tasks[w].status = 200

\* The reviews a public GET /reviews returns from the tables d (the backend
\* available); none when it is answered with an error.
PublicListing(d) ==
    LET out == ResponseModel(
                   ExceptException(GetPublicReviewsBody(d.reviews, FALSE), 500),
                   PublicReviews(d.reviews))
    IN  IF out.k = "return" THEN out.body ELSE {}

\* C22: a request that carries no valid token, POST /reviews with any body
\* included, adds no review to those the public GET /reviews returns.
C22_ApprovalNeedsValidToken ==
    [][(/\ req = NoRequest
        /\ req' # NoRequest
        /\ req'.cred # "valid")
       => PublicListing(db') \subseteq PublicListing(db)]_vars

\* C23: after a PUT /content/{k} answered with success, a record with key k
\* is stored and holds the encoded value of the body, and the records with
\* other keys are those stored before, whatever key the body carries.
C23_PathKeyIdentifiesRecord ==
    [][(/\ req = NoRequest
        /\ req'.ep = "PUT /content/{key}"
        /\ resp'.status = 200)
       => LET k == req'.arg.key
          IN  /\ k \in DOMAIN db'.contents
              /\ db'.contents[k] = json_dumps(req'.arg.body.value)
              /\ DOMAIN db'.contents \ {k} = DOMAIN db.contents \ {k}
              /\ \A j \in DOMAIN db.contents \ {k} :
                    db'.contents[j] = db.contents[j]]_vars

\* The stored categories with the name a project request names.
Named(d, request) ==
    {c \in d.portfolio_categories : c.name = request.arg.category_name}

\* C24: while two or more portfolio categories share a name, an
\* authenticated portfolio project create or update that names it fails
\* (the create with 400, the update with 500), issues no write and leaves
\* the projects and the categories as they were; once one category is left
\* with the name and the backend is available, the request succeeds.
C24_AmbiguousCategoryFails ==
    [][(/\ req = NoRequest
        /\ req'.ep \in {"POST /portfolio-projects",
                        "PUT /portfolio-projects/{id}"}
        /\ req'.cred = "valid")
       => /\ Cardinality(Named(db, req')) >= 2
             => /\ resp'.status =
                       IF req'.ep = "POST /portfolio-projects" THEN 400 ELSE 500
                /\ io'.writes = 0
                /\ db' = db
          /\ (Cardinality(Named(db, req')) = 1 /\ ~io'.outage)
             => resp'.status = 200]_vars

\* A project create named a category that two stored categories are named
\* after and failed with the backend available.
C24_Witness ==
    /\ req.ep = "POST /portfolio-projects"
    /\ req.cred = "valid"
    /\ resp.status = 400
    /\ ~io.outage
    /\ Cardinality(Named(db, req)) = 2
    /\ db.portfolio_projects = {}

====
